---------------------------- MODULE Spec2Model ----------------------------
(***************************************************************************)
(* State-machine model of the borrowing-costs research pipeline            *)
(* (ONEcampaign/borrowing_costs_research, package scripts/).               *)
(*                                                                         *)
(* The repository is a set of independent entry points.  Each one is       *)
(* modelled as its own state machine over its own group of variables and   *)
(* has its own specification, in which the variables of the other          *)
(* components stay idle:                                                   *)
(*   SpecFetch  scripts/wb/statements_api.py   fetch_paginated_data        *)
(*   SpecBatch  scripts/country_level.py       per-country batch loops     *)
(*   SpecCrs    scripts/crs/crs_data.py        deduplicate_crs_data        *)
(*   SpecTerms  scripts/ids/terms.py           indicator merger            *)
(*   SpecProj   scripts/project_level.py       project-level reconciler    *)
(*   SpecWb     scripts/wb/statements_api.py   get_ida/ibrd_interest       *)
(*   SpecClean  scripts/ids/clean_data.py      get_clean_data              *)
(*                                                                         *)
(* Tables (pandas DataFrames) are records [ok, cols, rows]: cols is the    *)
(* set of column names, rows a sequence of functions cols -> cell.  A cell *)
(* is NA (missing: NaN / None / pd.NA) or V(x), a present value x.         *)
(***************************************************************************)
EXTENDS Integers, Sequences, FiniteSets, TLC

VARIABLES
    \* ---- fetch_paginated_data (statements_api.py) ----
    max_records,      \* the page size argument ("top")
    skip,             \* local variable skip
    all_data,         \* local list all_data
    fetch_pc,         \* "idle" | "loop" | "awaiting" | "returned" | "raised"
    fetch_result,     \* the returned DataFrame, or NoResult
    requests_sent,    \* history: the (skip, top) of every requests.get issued
    responses,        \* history: the (status, payload) of every answer received
    \* ---- per-country batch loops (country_level.py) ----
    african_countries, \* InternationalDebtStatistics().get_african_countries()
    emde,              \* imf_emde()
    emde_not_african,  \* list(set(emde) - set(african_countries))
    batch_pc,          \* position in __main__ of country_level.py
    country_idx,       \* number of countries the running for loop has taken
    df,                \* the table returned by _download_and_clean_interest_data
    files,             \* history: every df.to_csv call (path, header, row count)
    downloads,         \* history: every _download_and_clean_interest_data call
    \* ---- CRS loader (crs/crs_data.py) ----
    crs_raw,           \* the table read from CRS.parquet
    crs_df,            \* local df of load_and_process_crs_data
    crs_pc,            \* position in load_and_process_crs_data
    dedup_input,       \* history: the argument deduplicate_crs_data was given
    \* ---- indicator merger (ids/terms.py) ----
    terms_pc,          \* "start" | "returned" | "raised"
    terms_fn,          \* which of the two merger functions was called
    rate,              \* get_average_interest(...)
    commitments,       \* get_commitments(...)
    payments,          \* get_interest_payments(...)
    grace,             \* get_grace(...)
    maturities,        \* get_maturities(...)
    terms_df,          \* the table the merger returns
    \* ---- project-level reconciler (project_level.py) ----
    ida_parquet,       \* the table read from ida_interest.parquet
    ibrd_parquet,      \* the table read from ibrd_interest.parquet
    crs_parquet,       \* the table read from CRS.parquet
    proj_pc,           \* position in get_project_level_interest
    wb_projects,       \* history: the table get_project_level_data returned
    project_level_data, \* local project_level_data
    crs_project_data,  \* local crs_project_data
    total_projects,    \* local total_projects
    missing_interest,  \* local missing_interest
    combined_data,     \* the table get_project_level_interest returns
    \* ---- WB statement summaries (statements_api.py) ----
    wb_fn,             \* "get_ida_interest" | "get_ibrd_interest" | "none"
    statements,        \* the table read from the function's parquet file
    summary,           \* the table the function returns
    wb_pc,             \* "idle" | "read" | "returned" | "raised"
    \* ---- indicator cleaning (ids/clean_data.py) ----
    clean_fn,          \* the function that called get_clean_data
    clean_counterparts, \* its counterparts argument: NA (None) or V(list)
    ids_data,          \* the table ids.get_data returned
    clean_df,          \* local df of get_clean_data
    interest_df,       \* the table _download_and_clean_interest_data returns
    clean_pc           \* position in get_clean_data and its caller

fetch_vars == <<max_records, skip, all_data, fetch_pc, fetch_result,
                requests_sent, responses>>

batch_vars == <<african_countries, emde, emde_not_african, batch_pc,
                country_idx, df, files, downloads>>

crs_vars == <<crs_raw, crs_df, crs_pc, dedup_input>>

terms_vars == <<terms_pc, terms_fn, rate, commitments, payments, grace,
                maturities, terms_df>>

proj_vars == <<ida_parquet, ibrd_parquet, crs_parquet, proj_pc, wb_projects,
               project_level_data, crs_project_data, total_projects,
               missing_interest, combined_data>>

wb_vars == <<wb_fn, statements, summary, wb_pc>>

clean_vars == <<clean_fn, clean_counterparts, ids_data, clean_df, interest_df, clean_pc>>

vars == <<fetch_vars, batch_vars, crs_vars, terms_vars, proj_vars, wb_vars, clean_vars>>

\* The variables of the other components, which a component's steps leave alone.
not_fetch_vars == <<batch_vars, crs_vars, terms_vars, proj_vars, wb_vars, clean_vars>>
not_batch_vars == <<fetch_vars, crs_vars, terms_vars, proj_vars, wb_vars, clean_vars>>
not_crs_vars == <<fetch_vars, batch_vars, terms_vars, proj_vars, wb_vars, clean_vars>>
not_terms_vars == <<fetch_vars, batch_vars, crs_vars, proj_vars, wb_vars, clean_vars>>
not_proj_vars == <<fetch_vars, batch_vars, crs_vars, terms_vars, wb_vars, clean_vars>>
not_clean_vars == <<fetch_vars, batch_vars, crs_vars, terms_vars, proj_vars, wb_vars>>
not_wb_vars == <<fetch_vars, batch_vars, crs_vars, terms_vars, proj_vars, clean_vars>>

-----------------------------------------------------------------------------
(* Cells and generic helpers *)

NA == <<>>
V(x) == <<x>>
IsNA(c) == c = NA
NotNA(c) == c # NA
Val(c) == c[1]

Range(s) == {s[i] : i \in 1..Len(s)}

\* All sequences over S of length 0..n
SeqsUpTo(S, n) == UNION {[1..k -> S] : k \in 0..n}

\* All sub-lists of s: any elements left out, the order kept.
RECURSIVE SubLists(_)
SubLists(s) ==
    IF s = <<>> THEN {<<>>}
    ELSE LET rest == SubLists(Tail(s))
         IN  rest \cup {<<Head(s)>> \o r : r \in rest}

RECURSIVE Flatten(_)
Flatten(ss) == IF ss = <<>> THEN <<>> ELSE Head(ss) \o Flatten(Tail(ss))

-----------------------------------------------------------------------------
(* Bounds of the model *)

MaxTop == 2         \* page sizes 1..MaxTop are tried
MaxPages == 3       \* at most this many page requests per fetch
MaxAfrican == 2     \* at most this many African countries
MaxFetchedRows == 2 \* at most this many observations fetched per country
MaxCrsRows == 2     \* at most this many rows in CRS.parquet
MaxCommitRows == 2  \* at most this many commitment observations

-----------------------------------------------------------------------------
(* Tables *)

Table(cols, rows) == [ok |-> TRUE, cols |-> cols, rows |-> rows]

\* The outcome of a call that raised instead of returning a table.
Raised == [ok |-> FALSE, cols |-> {}, rows |-> <<>>]

NoTable == [ok |-> FALSE, cols |-> {"<none>"}, rows |-> <<>>]

\* pd.DataFrame(columns=[...])
EmptyDataFrame(cols) == Table(cols, <<>>)

\* df.drop(columns=cs): KeyError when a column is absent.
DropColumns(t, cs) ==
    IF t.ok /\ cs \subseteq t.cols
    THEN Table(t.cols \ cs,
               [i \in 1..Len(t.rows) |-> [c \in t.cols \ cs |-> t.rows[i][c]]])
    ELSE Raised

\* The name a column gets in a merge: the suffix is added to the non-key
\* columns that both sides have.
Suffixed(c, overlap, suffix) == IF c \in overlap THEN c \o suffix ELSE c

\* pd.merge(left, right, on=on, how="left", suffixes=(lsuffix, rsuffix)).
\* KeyError when a key column is absent on either side; a left row without a
\* match is kept once, the right columns missing; a left row with n matches
\* yields n rows, in the order of the right rows; missing keys match each other.
MergeLeft(left, right, on, lsuffix, rsuffix) ==
    IF ~left.ok \/ ~right.ok \/ ~(on \subseteq left.cols) \/ ~(on \subseteq right.cols)
    THEN Raised
    ELSE LET overlap == (left.cols \cap right.cols) \ on
             lcols == {Suffixed(c, overlap, lsuffix) : c \in left.cols}
             rcols == {Suffixed(c, overlap, rsuffix) : c \in right.cols \ on}
             lsrc == [c \in lcols |->
                         CHOOSE x \in left.cols : Suffixed(x, overlap, lsuffix) = c]
             rsrc == [c \in rcols |->
                         CHOOSE x \in right.cols \ on : Suffixed(x, overlap, rsuffix) = c]
             joined(l, r) == [c \in lcols \cup rcols |->
                                 IF c \in lcols THEN l[lsrc[c]] ELSE r[rsrc[c]]]
             unmatched(l) == [c \in lcols \cup rcols |->
                                 IF c \in lcols THEN l[lsrc[c]] ELSE NA]
             matches(l) == SelectSeq(right.rows, LAMBDA r : \A k \in on : r[k] = l[k])
             rowsFor(l) == IF matches(l) = <<>> THEN <<unmatched(l)>>
                           ELSE [j \in 1..Len(matches(l)) |-> joined(l, matches(l)[j])]
         IN  IF lcols \cap rcols # {} THEN Raised
             ELSE Table(lcols \cup rcols,
                        Flatten([i \in 1..Len(left.rows) |-> rowsFor(left.rows[i])]))

\* df.rename(columns={old: new}); a column that is absent is left alone.
RenameColumn(t, old, new) ==
    IF ~t.ok THEN Raised
    ELSE IF old \notin t.cols THEN t
    ELSE LET cols == (t.cols \ {old}) \cup {new}
         IN  Table(cols, [i \in 1..Len(t.rows) |->
                             [c \in cols |-> IF c = new THEN t.rows[i][old] ELSE t.rows[i][c]]])

\* All permutations of a finite set, as sequences.
ListOrders(S) ==
    {p \in [1..Cardinality(S) -> S] : \A i, j \in 1..Cardinality(S) : p[i] = p[j] => i = j}


-----------------------------------------------------------------------------
(* ======================= fetch_paginated_data ========================== *)
(* scripts/wb/statements_api.py, lines 14-68                               *)

\* Rows of the remote dataset are opaque JSON objects.
RowIds == {"r1", "r2"}

\* HTTP status codes the server may answer with.
Statuses == {200, 404, 500}

\* A JSON payload: an object that may or may not have a "data" array.  A server
\* may ignore top: pages of up to top + 1 rows are tried.
Payloads(top) ==
    {[has_data |-> FALSE, data |-> <<>>]}
    \cup {[has_data |-> TRUE, data |-> d] : d \in SeqsUpTo(RowIds, top + 1)}

NoResult == [returned |-> FALSE, rows |-> <<>>]

\* response.raise_for_status(): requests raises HTTPError for 4xx and 5xx.
RaisesForStatus_NoCheck(status) == FALSE
RaisesForStatus(status) == status >= 400 /\ status < 600

\* payload.get("data", [])
PayloadData(payload) == IF payload.has_data THEN payload.data ELSE <<>>

\* len(data_batch) < max_records
IsLastPage_OffByOne(data_batch, top) == Len(data_batch) <= top
IsLastPage(data_batch, top) == Len(data_batch) < top

\* skip += 1
NextSkip_ByOne(s, top) == s + 1

\* skip += max_records
NextSkip(s, top) == s + top

\* pd.DataFrame(all_data): one table row per list element, in list order.
DataFrameOfRecords(records) == [returned |-> TRUE, rows |-> records]

FetchIdle ==
    /\ max_records = 0
    /\ skip = 0
    /\ all_data = <<>>
    /\ fetch_pc = "idle"
    /\ fetch_result = NoResult
    /\ requests_sent = <<>>
    /\ responses = <<>>

\* Lines 36-49: the call, with its page size; all_data = [], skip = 0.
FetchInit ==
    /\ max_records \in 1..MaxTop
    /\ skip = 0
    /\ all_data = <<>>
    /\ fetch_pc = "loop"
    /\ fetch_result = NoResult
    /\ requests_sent = <<>>
    /\ responses = <<>>

\* Lines 51-55: request_params["skip"] = skip; requests.get(BASE_URL, params).
RequestPage ==
    /\ fetch_pc = "loop"
    /\ Len(requests_sent) < MaxPages
    /\ requests_sent' = Append(requests_sent, [skip |-> skip, top |-> max_records])
    /\ fetch_pc' = "awaiting"
    /\ UNCHANGED <<max_records, skip, all_data, fetch_result, responses>>
    /\ UNCHANGED not_fetch_vars

\* Lines 55-66: the server answers; the rest of the loop body runs.
ReceivePage ==
    /\ fetch_pc = "awaiting"
    /\ \E status \in Statuses :
       \E payload \in (IF status = 200 THEN Payloads(max_records)
                       ELSE {[has_data |-> FALSE, data |-> <<>>]}) :
          /\ responses' = Append(responses, [status |-> status, payload |-> payload])
          /\ IF RaisesForStatus(status)
             THEN /\ fetch_pc' = "raised"
                  /\ UNCHANGED <<skip, all_data, fetch_result>>
             ELSE LET data_batch == PayloadData(payload)
                      extended == all_data \o data_batch
                  IN  /\ all_data' = extended
                      /\ IF IsLastPage(data_batch, max_records)
                         THEN /\ fetch_pc' = "returned"
                              /\ fetch_result' = DataFrameOfRecords(extended)
                              /\ UNCHANGED skip
                         ELSE /\ fetch_pc' = "loop"
                              /\ skip' = NextSkip(skip, max_records)
                              /\ UNCHANGED fetch_result
    /\ UNCHANGED <<max_records, requests_sent>>
    /\ UNCHANGED not_fetch_vars

FetchNext == RequestPage \/ ReceivePage

-----------------------------------------------------------------------------
(* ===================== per-country batch loops ========================= *)
(* scripts/country_level.py                                                *)

AfricanUniverse == {"KEN", "NGA"}
EmdeUniverse == {"KEN", "BRA"}

CounterpartNames == {"B"}
IndicatorCodes == {"DT.INR.OFFT", "DT.INR.PRVT"}
Years == {2000, 2001}
InterestValues == {V(0), V(3)}

\* Columns of a table returned by get_clean_data (_clean_indicators' filter).
CleanCols == {"entity_code", "entity_name", "counterpart_name", "income_level",
              "continent", "indicator_code", "year", "value"}

\* Columns of the placeholder returned when the download fails.
PlaceholderCols_NoIndicator == {"entity_name", "counterpart_name", "year", "value"}
PlaceholderCols_NoYear == {"entity_name", "counterpart_name", "indicator_code", "value"}
PlaceholderCols == {"entity_name", "counterpart_name", "year", "indicator_code", "value"}

\* One observation as get_average_interest(countries=[country]) returns it.
Observation(country, name, code, year, value) ==
    [c \in CleanCols |->
        CASE c = "entity_code" -> V(country)
          [] c = "entity_name" -> V(country)
          [] c = "counterpart_name" -> V(name)
          [] c = "income_level" -> V("Low income")
          [] c = "continent" -> V("Africa")
          [] c = "indicator_code" -> V(code)
          [] c = "year" -> V(year)
          [] c = "value" -> value]

Observations(country) ==
    {Observation(country, n, ic, y, v) :
        n \in CounterpartNames, ic \in IndicatorCodes, y \in Years, v \in InterestValues}

\* What get_average_interest(countries=[country]) can do: raise, or return a table.
AverageInterestOutcomes(country) ==
    {Raised} \cup {Table(CleanCols, rows) : rows \in SeqsUpTo(Observations(country), MaxFetchedRows)}

\* Lines 32-36: np.where(indicator_code == "DT.INR.PRVT", name + " (private)",
\* name + " (official)")
LabelCounterpart(row) ==
    [row EXCEPT !["counterpart_name"] =
        IF row["indicator_code"] = V("DT.INR.PRVT")
        THEN V(Val(@) \o " (private)")
        ELSE V(Val(@) \o " (official)")]

\* Python's ordering of the labelled counterpart names of the model.
LabelledNameOrder == <<"B (official)", "B (private)", "Bondholders (official)",
                       "Bondholders (private)", "World Bank (official)",
                       "World Bank (private)">>
NameRank(name) == CHOOSE i \in 1..Len(LabelledNameOrder) : LabelledNameOrder[i] = name

\* sort_values(["counterpart_name", "year"], ascending=(True, True)).
SortsBefore_YearAscending(a, b) ==
    \/ NameRank(Val(a["counterpart_name"])) < NameRank(Val(b["counterpart_name"]))
    \/ /\ a["counterpart_name"] = b["counterpart_name"]
       /\ Val(a["year"]) < Val(b["year"])

\* sort_values(["counterpart_name", "year"], ascending=(True, False)): row a is
\* placed strictly before row b.
SortsBefore(a, b) ==
    \/ NameRank(Val(a["counterpart_name"])) < NameRank(Val(b["counterpart_name"]))
    \/ /\ a["counterpart_name"] = b["counterpart_name"]
       /\ Val(a["year"]) > Val(b["year"])

\* Stable insertion of row r into the sorted sequence s.
RECURSIVE InsertRow(_, _)
InsertRow(s, r) ==
    IF s = <<>> THEN <<r>>
    ELSE IF SortsBefore(r, Head(s)) THEN <<r>> \o s
    ELSE <<Head(s)>> \o InsertRow(Tail(s), r)

RECURSIVE SortRows(_)
SortRows(rows) ==
    IF rows = <<>> THEN <<>>
    ELSE InsertRow(SortRows(SubSeq(rows, 1, Len(rows) - 1)), rows[Len(rows)])

\* No row is dropped for its value.
KeepAllValues(rows) == rows

\* Line 39: df.loc[lambda d: d.value != 0].
DropZeroValues(rows) == SelectSeq(rows, LAMBDA r : r["value"] # V(0))

\* Lines 12-47.  fetched is the outcome of get_average_interest.
DownloadAndCleanInterestData(fetched) ==
    IF ~fetched.ok
    THEN EmptyDataFrame(PlaceholderCols)
    ELSE LET labelled == [i \in 1..Len(fetched.rows) |-> LabelCounterpart(fetched.rows[i])]
             nonzero == DropZeroValues(labelled)
             dropped == DropColumns(Table(fetched.cols, nonzero), {"indicator_code"})
         IN  IF dropped.ok THEN Table(dropped.cols, SortRows(dropped.rows)) ELSE Raised

\* df.year.min() and df.year.max(): NaN on a table without rows.
YearMin(t) ==
    IF t.rows = <<>> THEN NA
    ELSE V(CHOOSE y \in {Val(r["year"]) : r \in Range(t.rows)} :
              \A r \in Range(t.rows) : y <= Val(r["year"]))
YearMax(t) ==
    IF t.rows = <<>> THEN NA
    ELSE V(CHOOSE y \in {Val(r["year"]) : r \in Range(t.rows)} :
              \A r \in Range(t.rows) : y >= Val(r["year"]))

\* df.to_csv(Paths.output / "interest_rates" / region / f"{country}_{start}_{end}.csv")
CsvWrite(region, country, t) ==
    [dir |-> region, country |-> country, start_year |-> YearMin(t),
     end_year |-> YearMax(t), header |-> t.cols, nrows |-> Len(t.rows)]

BatchIdle ==
    /\ african_countries = <<>>
    /\ emde = {}
    /\ emde_not_african = <<>>
    /\ batch_pc = "idle"
    /\ country_idx = 0
    /\ df = NoTable
    /\ files = <<>>
    /\ downloads = <<>>

\* __main__ of country_level.py starts; the two country lists are external data.
BatchInit ==
    /\ african_countries \in UNION {ListOrders(S) :
            S \in {T \in SUBSET AfricanUniverse : Cardinality(T) <= MaxAfrican}}
    /\ emde \in SUBSET EmdeUniverse
    /\ emde_not_african = <<>>
    /\ batch_pc = "africa_loop"
    /\ country_idx = 0
    /\ df = NoTable
    /\ files = <<>>
    /\ downloads = <<>>

\* One pass of a for loop up to the call's return (lines 57-58, 83-84).
LoopDownload(pc_loop, pc_write, countries) ==
    /\ batch_pc = pc_loop
    /\ country_idx < Len(countries)
    /\ LET country == countries[country_idx + 1]
       IN  \E fetched \in AverageInterestOutcomes(country) :
              /\ df' = DownloadAndCleanInterestData(fetched)
              /\ downloads' = Append(downloads, [country |-> country, failed |-> ~fetched.ok])
    /\ country_idx' = country_idx + 1
    /\ batch_pc' = pc_write
    /\ UNCHANGED <<african_countries, emde, emde_not_african, files>>
    /\ UNCHANGED not_batch_vars

\* The rest of the pass (lines 59-66, 85-92).
LoopWrite(pc_loop, pc_write, region, countries) ==
    /\ batch_pc = pc_write
    /\ IF df.ok /\ "year" \in df.cols    \* df.year: AttributeError without the column
       THEN /\ files' = Append(files, CsvWrite(region, countries[country_idx], df))
            /\ batch_pc' = pc_loop
       ELSE /\ batch_pc' = "raised"
            /\ UNCHANGED files
    /\ df' = NoTable
    /\ UNCHANGED <<african_countries, emde, emde_not_african, country_idx, downloads>>
    /\ UNCHANGED not_batch_vars

AfricaDownload == LoopDownload("africa_loop", "africa_write", african_countries)
AfricaWrite == LoopWrite("africa_loop", "africa_write", "africa", african_countries)

\* download_interest_data_per_african_country returns; lines 74-80 of
\* download_interest_data_per_emde_country run.
EmdeStart ==
    /\ batch_pc = "africa_loop"
    /\ country_idx = Len(african_countries)
    /\ emde_not_african' \in ListOrders(emde \ Range(african_countries))
    /\ country_idx' = 0
    /\ batch_pc' = "emde_loop"
    /\ UNCHANGED <<african_countries, emde, df, files, downloads>>
    /\ UNCHANGED not_batch_vars

EmdeDownload == LoopDownload("emde_loop", "emde_write", emde_not_african)
EmdeWrite == LoopWrite("emde_loop", "emde_write", "emde_non_african", emde_not_african)

EmdeEnd ==
    /\ batch_pc = "emde_loop"
    /\ country_idx = Len(emde_not_african)
    /\ batch_pc' = "done"
    /\ UNCHANGED <<african_countries, emde, emde_not_african, country_idx, df,
                   files, downloads>>
    /\ UNCHANGED not_batch_vars

BatchNext ==
    \/ AfricaDownload
    \/ AfricaWrite
    \/ EmdeStart
    \/ EmdeDownload
    \/ EmdeWrite
    \/ EmdeEnd

-----------------------------------------------------------------------------
(* ============================ CRS loader =============================== *)
(* scripts/crs/crs_data.py                                                 *)

\* The columns of CRS.parquet that load_and_process_crs_data uses; the other
\* DEFAULT_COLUMNS do not survive the groupby.
CrsRawCols == {"project_number", "recipient_code", "commitment_date",
               "interest1", "interest2", "usd_interest", "usd_received",
               "usd_commitment", "usd_disbursement"}

\* project_number values, as the list of their "."-separated parts.
ProjectNumbers == {NA, V(<<"P1", "L1", "1">>)}
RecipientCodes == {V(238), V(248)}
CommitmentDates == {V("2001-05-01")}
Interest1Values == {NA, V(1000), V(3500)}
Interest2Values == {NA, V(2000)}
UsdCommitmentValues == {NA, V(5)}

CrsRawRow(pn, rc, cd, i1, i2, uc) ==
    [c \in CrsRawCols |->
        CASE c = "project_number" -> pn
          [] c = "recipient_code" -> rc
          [] c = "commitment_date" -> cd
          [] c = "interest1" -> i1
          [] c = "interest2" -> i2
          [] c = "usd_interest" -> V(4)
          [] c = "usd_received" -> V(2)
          [] c = "usd_commitment" -> uc
          [] c = "usd_disbursement" -> V(1)]

CrsRawRows ==
    {CrsRawRow(pn, rc, cd, i1, i2, uc) :
        pn \in ProjectNumbers, rc \in RecipientCodes, cd \in CommitmentDates,
        i1 \in Interest1Values, i2 \in Interest2Values, uc \in UsdCommitmentValues}

\* Lines 65-78: df[["project_id", "loan_or_credit_number", "crs_entry"]] =
\* df[column].str.split(".", expand=True); drop crs_entry.  The assignment raises
\* ValueError unless the split yields three columns.
SplitPart(cell, i) == IF IsNA(cell) \/ Len(Val(cell)) < i THEN NA ELSE V(Val(cell)[i])

SplitWidth(t) ==
    IF \A r \in Range(t.rows) : IsNA(r["project_number"]) THEN 0
    ELSE CHOOSE n \in 1..3 :
            /\ \E r \in Range(t.rows) : NotNA(r["project_number"]) /\ Len(Val(r["project_number"])) = n
            /\ \A r \in Range(t.rows) : NotNA(r["project_number"]) => Len(Val(r["project_number"])) <= n

SplitProjectNumber(t) ==
    IF ~t.ok \/ "project_number" \notin t.cols \/ SplitWidth(t) # 3
    THEN Raised
    ELSE LET cols == t.cols \cup {"project_id", "loan_or_credit_number"}
         IN  Table(cols,
                   [i \in 1..Len(t.rows) |->
                       [c \in cols |->
                           CASE c = "project_id" -> SplitPart(t.rows[i]["project_number"], 1)
                             [] c = "loan_or_credit_number" -> SplitPart(t.rows[i]["project_number"], 2)
                             [] OTHER -> t.rows[i][c]]])

\* Lines 92-98: the groupby key, after commitment_date became board_approval_date.
CrsKeyCols == {"project_id", "loan_or_credit_number", "recipient_code", "board_approval_date"}
CrsKey(row) == [c \in CrsKeyCols |-> row[c]]

\* String order of the key values of the model (groupby sorts its keys).
StringOrder == <<"2001-05-01", "FSL", "KE", "Kenya", "L1", "L2", "P1", "Roads",
                 "SCL", "Water">>
StrRank(x) == CHOOSE i \in 1..Len(StringOrder) : StringOrder[i] = x

\* Cell a sorts strictly before cell b; missing values sort last.  The columns
\* in numeric hold numbers or datetimes, the others strings.
CellBefore(numeric, c, a, b) ==
    IF IsNA(a) THEN FALSE
    ELSE IF IsNA(b) THEN TRUE
    ELSE IF c \in numeric THEN Val(a) < Val(b)
    ELSE StrRank(Val(a)) < StrRank(Val(b))

\* The groupby key of deduplicate_crs_data, in the order of the by= list; the
\* commitment dates are still strings there.
KeyColOrder == <<"project_id", "loan_or_credit_number", "recipient_code", "board_approval_date">>
CrsNumericCols == {"recipient_code"}

RECURSIVE KeyBeforeFrom(_, _, _, _, _)
KeyBeforeFrom(order, numeric, k1, k2, i) ==
    IF i > Len(order) THEN FALSE
    ELSE LET c == order[i]
         IN  IF CellBefore(numeric, c, k1[c], k2[c]) THEN TRUE
             ELSE IF CellBefore(numeric, c, k2[c], k1[c]) THEN FALSE
             ELSE KeyBeforeFrom(order, numeric, k1, k2, i + 1)

\* The group keys in the order groupby(sort=True) emits them.
RECURSIVE SortedKeys(_, _, _)
SortedKeys(K, order, numeric) ==
    IF K = {} THEN <<>>
    ELSE LET first == CHOOSE k \in K :
                          \A o \in K \ {k} : KeyBeforeFrom(order, numeric, k, o, 1)
         IN  <<first>> \o SortedKeys(K \ {first}, order, numeric)

\* groupby(...).agg "max": the largest present value, NaN when all are missing.
RECURSIVE AggMax(_, _)
AggMax(rows, c) ==
    IF rows = <<>> THEN NA
    ELSE LET rest == AggMax(Tail(rows), c)
             x == Head(rows)[c]
         IN  IF IsNA(x) THEN rest
             ELSE IF IsNA(rest) THEN x
             ELSE IF Val(x) >= Val(rest) THEN x ELSE rest

\* groupby(...).agg "sum": missing values are skipped, 0 when all are missing.
RECURSIVE AggSum(_, _)
AggSum(rows, c) ==
    IF rows = <<>> THEN V(0)
    ELSE LET x == Head(rows)[c]
         IN  V((IF IsNA(x) THEN 0 ELSE Val(x)) + Val(AggSum(Tail(rows), c)))

\* np.maximum(a, b), which propagates a missing operand.
PropagatingMax(a, b) ==
    IF IsNA(a) \/ IsNA(b) THEN NA
    ELSE IF Val(a) >= Val(b) THEN a ELSE b

\* np.fmax(a, b): the larger one, ignoring a missing operand.
FMax(a, b) ==
    IF IsNA(a) THEN b
    ELSE IF IsNA(b) THEN a
    ELSE IF Val(a) >= Val(b) THEN a ELSE b

\* x / 1000 on floats: the exact quotient, kept as a fraction.
PerThousand(x) == IF IsNA(x) THEN NA ELSE V([num |-> Val(x), den |-> 1000])

\* Line 112.
InterestRate(i1, i2) == PerThousand(FMax(i1, i2))

DedupCols == CrsKeyCols \cup {"usd_interest", "usd_received", "usd_commitment",
                              "usd_disbursement", "interest_rate"}

\* Lines 81-113.
DeduplicateCrsData(t) ==
    IF ~t.ok \/ ~((CrsRawCols \ {"project_number"}) \cup {"project_id", "loan_or_credit_number"}
                    \subseteq t.cols)
    THEN Raised
    ELSE LET renamed == [i \in 1..Len(t.rows) |->
                            [c \in (t.cols \ {"commitment_date"}) \cup {"board_approval_date"} |->
                                IF c = "board_approval_date" THEN t.rows[i]["commitment_date"]
                                ELSE t.rows[i][c]]]
             keys == SortedKeys({CrsKey(r) : r \in Range(renamed)}, KeyColOrder, CrsNumericCols)
             group(k) == SelectSeq(renamed, LAMBDA r : CrsKey(r) = k)
             out(k) ==
                 [c \in DedupCols |->
                     CASE c \in CrsKeyCols -> k[c]
                       [] c = "interest_rate" ->
                            InterestRate(AggMax(group(k), "interest1"),
                                         AggMax(group(k), "interest2"))
                       [] OTHER -> AggSum(group(k), c)]
         IN  Table(DedupCols, [i \in 1..Len(keys) |-> out(keys[i])])

\* Lines 116-126: df.dropna(subset=["interest_rate"]).
DropMissingInterest(t) ==
    IF ~t.ok \/ "interest_rate" \notin t.cols THEN Raised
    ELSE Table(t.cols, SelectSeq(t.rows, LAMBDA r : NotNA(r["interest_rate"])))

\* Lines 129-153.
LoadAndProcessCrsData(raw) ==
    DropMissingInterest(DeduplicateCrsData(SplitProjectNumber(raw)))

CrsIdle ==
    /\ crs_raw = NoTable
    /\ crs_df = NoTable
    /\ crs_pc = "idle"
    /\ dedup_input = NoTable

\* Lines 147-149: the parquet file has been read (filters and columns applied).
CrsInit ==
    /\ crs_raw \in {Table(CrsRawCols, rows) : rows \in SeqsUpTo(CrsRawRows, MaxCrsRows)}
    /\ crs_df = crs_raw
    /\ crs_pc = "read"
    /\ dedup_input = NoTable

\* Line 150.
CrsSplit ==
    /\ crs_pc = "read"
    /\ crs_df' = SplitProjectNumber(crs_df)
    /\ crs_pc' = IF crs_df'.ok THEN "split" ELSE "raised"
    /\ UNCHANGED <<crs_raw, dedup_input>>
    /\ UNCHANGED not_crs_vars

\* Line 151.
CrsDeduplicate ==
    /\ crs_pc = "split"
    /\ dedup_input' = crs_df
    /\ crs_df' = DeduplicateCrsData(crs_df)
    /\ crs_pc' = IF crs_df'.ok THEN "deduplicated" ELSE "raised"
    /\ UNCHANGED crs_raw
    /\ UNCHANGED not_crs_vars

\* Lines 152-153.
CrsDropMissing ==
    /\ crs_pc = "deduplicated"
    /\ crs_df' = DropMissingInterest(crs_df)
    /\ crs_pc' = IF crs_df'.ok THEN "returned" ELSE "raised"
    /\ UNCHANGED <<crs_raw, dedup_input>>
    /\ UNCHANGED not_crs_vars

CrsNext == CrsSplit \/ CrsDeduplicate \/ CrsDropMissing

-----------------------------------------------------------------------------
(* ========================= indicator merger ============================ *)
(* scripts/ids/terms.py                                                    *)

\* Lines 39 and 87.
MergeIdx == {"year", "entity_name", "counterpart_name", "continent", "income_level"}

\* One observation of a get_clean_data table: its year, indicator and value.
TermsRow(year, code, value) ==
    [c \in CleanCols |->
        CASE c = "entity_code" -> V("KEN")
          [] c = "entity_name" -> V("Kenya")
          [] c = "counterpart_name" -> V("World Bank")
          [] c = "income_level" -> V("Lower middle income")
          [] c = "continent" -> V("Africa")
          [] c = "indicator_code" -> V(code)
          [] c = "year" -> V(year)
          [] c = "value" -> value]

CommitmentValues == {NA, V(-1), V(0), V(5)}

CommitmentTables ==
    {Table(CleanCols, rows) :
        rows \in SeqsUpTo({TermsRow(y, "DT.COM.MLAT.CD", v) : y \in Years, v \in CommitmentValues},
                          MaxCommitRows)}

\* get_average_interest: official and private rates of 2000, an official rate of 2001.
RateTables ==
    {Table(CleanCols, rows) :
        rows \in SubLists(<<TermsRow(2000, "DT.INR.OFFT", V(3)),
                            TermsRow(2000, "DT.INR.PRVT", V(4)),
                            TermsRow(2001, "DT.INR.OFFT", V(3))>>)}

\* The tables one of the other getters can return: an observation of 2000, one
\* of 2001, both or none.
SideTables(code, value) ==
    {Table(CleanCols, rows) :
        rows \in SubLists(<<TermsRow(2000, code, value), TermsRow(2001, code, value)>>)}

\* .loc[lambda d: d.value_commitments > 0]; a comparison with NaN is False.
NonNegativeCommitment(row) ==
    NotNA(row["value_commitments"]) /\ Val(row["value_commitments"]) >= 0
PositiveCommitment(row) ==
    NotNA(row["value_commitments"]) /\ Val(row["value_commitments"]) > 0

KeepPositiveCommitments(t) ==
    IF ~t.ok \/ "value_commitments" \notin t.cols THEN Raised
    ELSE Table(t.cols, SelectSeq(t.rows, PositiveCommitment))

\* Lines 42-47.
MergedRatesCommitmentsPayments(r, c, p) ==
    KeepPositiveCommitments(
        RenameColumn(
            MergeLeft(MergeLeft(c, r, MergeIdx, "_commitments", ""),
                      p, MergeIdx, "", "_payments"),
            "value", "value_rate"))

\* Lines 90-96.
MergedRatesCommitmentsGraceMaturities(r, c, g, m) ==
    KeepPositiveCommitments(
        RenameColumn(
            MergeLeft(MergeLeft(MergeLeft(c, r, MergeIdx, "_commitments", ""),
                                g, MergeIdx, "", "_grace"),
                      m, MergeIdx, "", "_maturities"),
            "value", "value_rate"))

TermsIdle ==
    /\ terms_pc = "idle"
    /\ terms_fn = "none"
    /\ rate = NoTable
    /\ commitments = NoTable
    /\ payments = NoTable
    /\ grace = NoTable
    /\ maturities = NoTable
    /\ terms_df = NoTable

TermsInit ==
    /\ terms_pc = "start"
    /\ terms_fn = "none"
    /\ rate = NoTable
    /\ commitments = NoTable
    /\ payments = NoTable
    /\ grace = NoTable
    /\ maturities = NoTable
    /\ terms_df = NoTable

\* Lines 9-49: get_merged_rates_commitments_payments_data.
GetMergedRatesCommitmentsPayments ==
    /\ terms_pc = "start"
    /\ terms_fn' = "payments"
    /\ rate' \in RateTables
    /\ commitments' \in CommitmentTables
    /\ payments' \in SideTables("DT.INT.MLAT.CD", V(9))
    /\ terms_df' = MergedRatesCommitmentsPayments(rate', commitments', payments')
    /\ terms_pc' = IF terms_df'.ok THEN "returned" ELSE "raised"
    /\ UNCHANGED <<grace, maturities>>
    /\ UNCHANGED not_terms_vars

\* Lines 52-98: get_merged_rates_commitments_grace_maturities_data.
GetMergedRatesCommitmentsGraceMaturities ==
    /\ terms_pc = "start"
    /\ terms_fn' = "grace_maturities"
    /\ rate' \in RateTables
    /\ commitments' \in CommitmentTables
    /\ grace' \in SideTables("DT.GPA.DPPG", V(7))
    /\ maturities' \in SideTables("DT.MAT.DPPG", V(20))
    /\ terms_df' = MergedRatesCommitmentsGraceMaturities(rate', commitments', grace', maturities')
    /\ terms_pc' = IF terms_df'.ok THEN "returned" ELSE "raised"
    /\ UNCHANGED payments
    /\ UNCHANGED not_terms_vars

TermsNext == GetMergedRatesCommitmentsPayments \/ GetMergedRatesCommitmentsGraceMaturities

-----------------------------------------------------------------------------
(* ====================== project-level reconciler ======================= *)
(* scripts/project_level.py, scripts/wb/statements_api.py (lines 169-237)  *)

MaxIdaRows == 2     \* at most this many rows in ida_interest.parquet
MaxIbrdRows == 2    \* at most this many rows in ibrd_interest.parquet
MaxProjCrsRows == 2 \* at most this many rows in CRS.parquet for the reconciler

\* df.assign(col=...) / df[col] = ...: column col is set to the series cells,
\* which has one cell per row.
Assign(t, col, cells) ==
    IF ~t.ok THEN Raised
    ELSE Table(t.cols \cup {col},
               [i \in 1..Len(t.rows) |->
                   [c \in t.cols \cup {col} |->
                       IF c = col THEN cells[i] ELSE t.rows[i][c]]])

\* df[col]: the column as a series, one cell per row.
Series(t, col) == [i \in 1..Len(t.rows) |-> t.rows[i][col]]

\* df.loc[mask] / df.query(...): the rows whose entry in the boolean series
\* mask is true, in their order.
SelectRows(t, mask) ==
    IF ~t.ok THEN Raised
    ELSE LET kept == SelectSeq([i \in 1..Len(t.rows) |-> i], LAMBDA i : mask[i])
         IN  Table(t.cols, [n \in 1..Len(kept) |-> t.rows[kept[n]]])

\* series.isna() and series.notna().
IsNaSeries(series) == [i \in 1..Len(series) |-> IsNA(series[i])]
NotNaSeries(series) == [i \in 1..Len(series) |-> NotNA(series[i])]

\* A series with the same value in each of the n rows.
ConstSeries(n, cell) == [i \in 1..n |-> cell]

\* pd.concat([a, b], ignore_index=True): the rows of a, then those of b, over
\* the union of the columns; a column one side lacks is missing in its rows.
Concat(a, b) ==
    IF ~a.ok \/ ~b.ok THEN Raised
    ELSE LET cols == a.cols \cup b.cols
             widen(t) == [i \in 1..Len(t.rows) |->
                             [c \in cols |-> IF c \in t.cols THEN t.rows[i][c] ELSE NA]]
         IN  Table(cols, widen(a) \o widen(b))

\* The larger of two cells of column c, a missing one ignored.
CellMax(numeric, c, a, b) == IF CellBefore(numeric, c, a, b) THEN b ELSE a

\* GroupBy.max() of column c over the rows of one group.
RECURSIVE GroupMax(_, _, _)
GroupMax(numeric, rows, c) ==
    IF rows = <<>> THEN NA
    ELSE LET rest == GroupMax(numeric, Tail(rows), c)
             x == Head(rows)[c]
         IN  IF IsNA(x) THEN rest
             ELSE IF IsNA(rest) THEN x
             ELSE CellMax(numeric, c, rest, x)

\* df.groupby(idx_cols, dropna=False, observed=True)[value_cols].max()
\*   .reset_index(): one row per distinct key, the keys sorted.
GroupByMax(t, idx_cols, value_cols, numeric) ==
    IF ~t.ok \/ ~(Range(idx_cols) \cup value_cols \subseteq t.cols) THEN Raised
    ELSE LET key(r) == [c \in Range(idx_cols) |-> r[c]]
             keys == SortedKeys({key(r) : r \in Range(t.rows)}, idx_cols, numeric)
             group(k) == SelectSeq(t.rows, LAMBDA r : key(r) = k)
             out(k) == [c \in Range(idx_cols) \cup value_cols |->
                           IF c \in value_cols THEN GroupMax(numeric, group(k), c)
                           ELSE k[c]]
         IN  Table(Range(idx_cols) \cup value_cols, [i \in 1..Len(keys) |-> out(keys[i])])

\* df.drop_duplicates(subset=subset, keep="first").
DropDuplicatesKeepFirst(t, subset) ==
    IF ~t.ok \/ ~(subset \subseteq t.cols) THEN Raised
    ELSE LET same(i, j) == \A c \in subset : t.rows[i][c] = t.rows[j][c]
             first(i) == \A j \in 1..(i - 1) : ~same(i, j)
             kept == SelectSeq([i \in 1..Len(t.rows) |-> i], first)
         IN  Table(t.cols, [n \in 1..Len(kept) |-> t.rows[kept[n]]])

\* df.drop_duplicates(subset=subset, keep="last").
DropDuplicatesKeepLast(t, subset) ==
    IF ~t.ok \/ ~(subset \subseteq t.cols) THEN Raised
    ELSE LET same(i, j) == \A c \in subset : t.rows[i][c] = t.rows[j][c]
             last(i) == \A j \in (i + 1)..Len(t.rows) : ~same(i, j)
             kept == SelectSeq([i \in 1..Len(t.rows) |-> i], last)
         IN  Table(t.cols, [n \in 1..Len(kept) |-> t.rows[kept[n]]])

\* statements_api.py lines 169-172: df[column].replace(0, pd.NA).
zero_to_nan(t, column) ==
    IF ~t.ok \/ column \notin t.cols THEN Raised
    ELSE Assign(t, column,
                [i \in 1..Len(t.rows) |->
                    IF t.rows[i][column] = V(0) THEN NA ELSE t.rows[i][column]])

\* The columns of ida_interest.parquet that get_ida_interest uses.
IdaIdxCols == <<"credit_number", "board_approval_date", "country_code",
                "project_id", "project_name">>
IdaValueCols == {"country", "service_charge_rate", "original_principal_amount_us_"}
IdaCols == Range(IdaIdxCols) \cup IdaValueCols

\* The columns of ibrd_interest.parquet that get_ibrd_interest uses.
IbrdIdxCols == <<"loan_number", "board_approval_date", "country_code",
                 "project_id", "project_name_", "loan_type">>
IbrdValueCols == {"country", "interest_rate", "original_principal_amount"}
IbrdCols == Range(IbrdIdxCols) \cup IbrdValueCols

\* board_approval_date is a datetime in the WB files (clean_ida_ibrd_response):
\* the day as the number yyyymmdd.
WbDates == {V(20010501), V(20020101)}
WbRates == {V(0), V(3)}
WbNumericCols == {"board_approval_date", "service_charge_rate", "interest_rate",
                  "original_principal_amount_us_", "original_principal_amount"}

IdaRow(date, r) ==
    [c \in IdaCols |->
        CASE c = "credit_number" -> V("L1")
          [] c = "board_approval_date" -> date
          [] c = "country_code" -> V("KE")
          [] c = "project_id" -> V("P1")
          [] c = "project_name" -> V("Roads")
          [] c = "country" -> V("Kenya")
          [] c = "service_charge_rate" -> r
          [] c = "original_principal_amount_us_" -> V(100)]

IbrdRow(date, r) ==
    [c \in IbrdCols |->
        CASE c = "loan_number" -> V("L1")
          [] c = "board_approval_date" -> date
          [] c = "country_code" -> V("KE")
          [] c = "project_id" -> V("P1")
          [] c = "project_name_" -> V("Roads")
          [] c = "loan_type" -> V("FSL")
          [] c = "country" -> V("Kenya")
          [] c = "interest_rate" -> r
          [] c = "original_principal_amount" -> V(100)]

IdaRows == {IdaRow(d, r) : d \in WbDates, r \in WbRates}
IbrdRows == {IbrdRow(d, r) : d \in WbDates, r \in WbRates}

\* statements_api.py lines 175-204.
get_ida_interest(ida) ==
    zero_to_nan(
        DropDuplicatesKeepLast(
            GroupByMax(ida, IdaIdxCols, IdaValueCols, WbNumericCols),
            {"credit_number", "country_code", "project_id"}),
        "service_charge_rate")

\* statements_api.py lines 207-237.
get_ibrd_interest(ibrd) ==
    zero_to_nan(
        DropDuplicatesKeepLast(
            GroupByMax(ibrd, IbrdIdxCols, IbrdValueCols, WbNumericCols),
            {"loan_number", "country_code", "project_id"}),
        "interest_rate")

\* bblocks convert_id(series, from_type, to_type): each present value is looked
\* up in the conversion table of the two types.
convert_id(series, table) ==
    [i \in 1..Len(series) |-> IF IsNA(series[i]) THEN NA ELSE V(table[Val(series[i])])]

\* from_type="regex", to_type="ISO3", on the country names of the model.
CountryToIso3Table == [name \in {"Kenya"} |-> "KEN"]

\* from_type="DACCode", to_type="ISO3", on the recipient codes of the model.
DacCodeToIso3Table == [code \in {238, 248} |-> IF code = 238 THEN "ETH" ELSE "KEN"]

\* pd.to_datetime on the commitment dates of the model: the day as the number
\* yyyymmdd.
to_datetime(series) ==
    [i \in 1..Len(series) |->
        IF IsNA(series[i]) THEN NA
        ELSE V(CASE Val(series[i]) = "2001-05-01" -> 20010501)]

\* project_level.py lines 50-63.
get_project_level_data(ida, ibrd) ==
    LET ida_frame == get_ida_interest(ida)
        ibrd_frame == get_ibrd_interest(ibrd)
        ida_summary == Assign(ida_frame, "source", ConstSeries(Len(ida_frame.rows), V("IDA")))
        ibrd_summary == Assign(ibrd_frame, "source", ConstSeries(Len(ibrd_frame.rows), V("IBRD")))
        data == Concat(ida_summary, ibrd_summary)
    IN  IF ~data.ok \/ "country" \notin data.cols THEN Raised
        ELSE Assign(data, "iso3", convert_id(Series(data, "country"), CountryToIso3Table))

\* The rows of CRS.parquet the reconciler is run on.
ProjCrsRows ==
    {CrsRawRow(V(<<"P1", "L1", "1">>), rc, V("2001-05-01"), i1, NA, V(5)) :
        rc \in RecipientCodes, i1 \in {NA, V(3500)}}

\* project_level.py lines 19-47.
get_crs_reported_projects(raw) ==
    LET crs_data == LoadAndProcessCrsData(raw)
        with_iso3 == Assign(crs_data, "iso3",
                            convert_id(Series(crs_data, "recipient_code"), DacCodeToIso3Table))
        with_dates == Assign(with_iso3, "board_approval_date",
                             to_datetime(Series(with_iso3, "board_approval_date")))
    IN  IF ~crs_data.ok THEN Raised
        ELSE DropColumns(DropMissingInterest(with_dates),
                         {"recipient_code", "usd_interest", "usd_received",
                          "usd_commitment", "usd_disbursement"})

\* project_level.py lines 66-71.
filter_keep_only_missing_interest(data) ==
    IF ~data.ok \/ "interest_rate" \notin data.cols THEN Raised
    ELSE DropColumns(SelectRows(data, IsNaSeries(Series(data, "interest_rate"))),
                     {"interest_rate"})

\* project_level.py lines 74-84; the merge takes the default suffixes.
MergeKey == {"project_id", "loan_or_credit_number", "iso3", "board_approval_date"}

add_available_interest_rate_data_from_crs(wb_data, crs_data) ==
    MergeLeft(wb_data, crs_data, MergeKey, "_x", "_y")

\* df.loc[lambda d: d.interest_rate.notna()]: AttributeError without the column.
InterestNotNa(t) ==
    IF ~t.ok \/ "interest_rate" \notin t.cols THEN Raised
    ELSE SelectRows(t, NotNaSeries(Series(t, "interest_rate")))

ProjIdle ==
    /\ ida_parquet = NoTable
    /\ ibrd_parquet = NoTable
    /\ crs_parquet = NoTable
    /\ proj_pc = "idle"
    /\ wb_projects = NoTable
    /\ project_level_data = NoTable
    /\ crs_project_data = NoTable
    /\ total_projects = 0
    /\ missing_interest = NoTable
    /\ combined_data = NoTable

\* get_project_level_interest is called on the three files under raw_data.
ProjInit ==
    /\ ida_parquet \in {Table(IdaCols, rows) : rows \in SeqsUpTo(IdaRows, MaxIdaRows)}
    /\ ibrd_parquet \in {Table(IbrdCols, rows) : rows \in SeqsUpTo(IbrdRows, MaxIbrdRows)}
    /\ crs_parquet \in {Table(CrsRawCols, rows) : rows \in SeqsUpTo(ProjCrsRows, MaxProjCrsRows)}
    /\ proj_pc = "start"
    /\ wb_projects = NoTable
    /\ project_level_data = NoTable
    /\ crs_project_data = NoTable
    /\ total_projects = 0
    /\ missing_interest = NoTable
    /\ combined_data = NoTable

\* Line 91.
GetProjectLevelData ==
    /\ proj_pc = "start"
    /\ project_level_data' = get_project_level_data(ida_parquet, ibrd_parquet)
    /\ wb_projects' = project_level_data'
    /\ proj_pc' = IF project_level_data'.ok THEN "wb_loaded" ELSE "raised"
    /\ UNCHANGED <<ida_parquet, ibrd_parquet, crs_parquet, crs_project_data,
                   total_projects, missing_interest, combined_data>>
    /\ UNCHANGED not_proj_vars

\* Line 92.
GetCrsReportedProjects ==
    /\ proj_pc = "wb_loaded"
    /\ crs_project_data' = get_crs_reported_projects(crs_parquet)
    /\ proj_pc' = IF crs_project_data'.ok THEN "crs_loaded" ELSE "raised"
    /\ UNCHANGED <<ida_parquet, ibrd_parquet, crs_parquet, wb_projects,
                   project_level_data, total_projects, missing_interest,
                   combined_data>>
    /\ UNCHANGED not_proj_vars

\* Lines 95-106: the records without a rate are set apart for the CRS lookup,
\* the others stay in project_level_data.
FilterMissingInterest ==
    /\ proj_pc = "crs_loaded"
    /\ total_projects' = Len(project_level_data.rows)
    /\ missing_interest' = filter_keep_only_missing_interest(project_level_data)
    /\ project_level_data' = InterestNotNa(project_level_data)
    /\ proj_pc' = IF missing_interest'.ok /\ project_level_data'.ok
                  THEN "filtered" ELSE "raised"
    /\ UNCHANGED <<ida_parquet, ibrd_parquet, crs_parquet, wb_projects,
                   crs_project_data, combined_data>>
    /\ UNCHANGED not_proj_vars

\* Lines 110-130: the CRS lookup, the rows still without a rate dropped, the two
\* parts concatenated and returned.  A step that raises leaves the function
\* with nothing returned.
MergeAndCombine ==
    /\ proj_pc = "filtered"
    /\ LET merged == add_available_interest_rate_data_from_crs(missing_interest,
                                                               crs_project_data)
           found == InterestNotNa(merged)
           combined == Concat(project_level_data, found)
       IN  /\ missing_interest' = IF found.ok THEN found ELSE merged
           /\ combined_data' = IF combined.ok THEN combined ELSE NoTable
           /\ proj_pc' = IF combined.ok THEN "returned" ELSE "raised"
    /\ UNCHANGED <<ida_parquet, ibrd_parquet, crs_parquet, wb_projects,
                   project_level_data, crs_project_data, total_projects>>
    /\ UNCHANGED not_proj_vars

ProjNext ==
    \/ GetProjectLevelData
    \/ GetCrsReportedProjects
    \/ FilterMissingInterest
    \/ MergeAndCombine

-----------------------------------------------------------------------------
(* ====================== WB statement summaries ========================= *)
(* scripts/wb/statements_api.py lines 175-237, each function on its own    *)

MaxStatementRows == 2   \* at most this many rows in a WB statement file

\* board_approval_date after clean_ida_ibrd_response (errors="coerce"): a day,
\* or NaT.
StatementDates == WbDates \cup {NA}

\* Rows of ida_interest.parquet: credits L1 and L2 of one project, with
\* different approval dates, project names and service charges.
IdaStatementRows ==
    {[IdaRow(d, r) EXCEPT !["credit_number"] = V(cn), !["project_name"] = V(pn)] :
        d \in StatementDates, r \in WbRates, cn \in {"L1", "L2"}, pn \in {"Roads", "Water"}}

\* Rows of ibrd_interest.parquet: loans L1 and L2 of one project, with
\* different approval dates, loan types and interest rates.
IbrdStatementRows ==
    {[IbrdRow(d, r) EXCEPT !["loan_number"] = V(ln), !["loan_type"] = V(lt)] :
        d \in WbDates, r \in WbRates, ln \in {"L1", "L2"}, lt \in {"FSL", "SCL"}}

WbIdle ==
    /\ wb_fn = "none"
    /\ statements = NoTable
    /\ summary = NoTable
    /\ wb_pc = "idle"

\* Lines 181-182 and 213-214: the function has read its parquet file.
WbInit ==
    /\ \/ /\ wb_fn = "get_ida_interest"
          /\ statements \in {Table(IdaCols, rows) :
                                rows \in SeqsUpTo(IdaStatementRows, MaxStatementRows)}
       \/ /\ wb_fn = "get_ibrd_interest"
          /\ statements \in {Table(IbrdCols, rows) :
                                rows \in SeqsUpTo(IbrdStatementRows, MaxStatementRows)}
    /\ summary = NoTable
    /\ wb_pc = "read"

\* Lines 192-204.
GetIdaInterest ==
    /\ wb_pc = "read"
    /\ wb_fn = "get_ida_interest"
    /\ summary' = get_ida_interest(statements)
    /\ wb_pc' = IF summary'.ok THEN "returned" ELSE "raised"
    /\ UNCHANGED <<wb_fn, statements>>
    /\ UNCHANGED not_wb_vars

\* Lines 225-237.
GetIbrdInterest ==
    /\ wb_pc = "read"
    /\ wb_fn = "get_ibrd_interest"
    /\ summary' = get_ibrd_interest(statements)
    /\ wb_pc' = IF summary'.ok THEN "returned" ELSE "raised"
    /\ UNCHANGED <<wb_fn, statements>>
    /\ UNCHANGED not_wb_vars

WbNext == GetIdaInterest \/ GetIbrdInterest

-----------------------------------------------------------------------------
(* ========================= indicator cleaning ========================== *)
(* scripts/ids/clean_data.py, called through interest.py, commitments.py,  *)
(* grace.py and maturity.py                                                *)

MaxIdsRows == 2     \* at most this many observations returned by ids.get_data

\* interest.py lines 7-10 and commitments.py lines 5-9: code -> indicator type.
INTEREST_RATE_INDICATORS ==
    [c \in {"DT.INR.OFFT", "DT.INR.PRVT"} |->
        IF c = "DT.INR.OFFT" THEN "Official" ELSE "Private"]
COMMITMENTS_INDICATORS ==
    [c \in {"DT.COM.BLAT.CD", "DT.COM.MLAT.CD", "DT.COM.PRVT.CD"} |->
        IF c = "DT.COM.BLAT.CD" THEN "Bilateral"
        ELSE IF c = "DT.COM.MLAT.CD" THEN "Multilateral" ELSE "Private"]
GRACE_PERIOD_INDICATOR == "DT.GPA.DPPG"
MATURITY_INDICATOR == "DT.MAT.DPPG"

\* The functions that hand their indicators to get_clean_data.
CleanCallers == {"get_average_interest", "get_commitments", "get_grace", "get_maturities"}

\* isinstance(indicators, dict) for the indicators the caller passes.
IndicatorsIsDict(fn) == fn \in {"get_average_interest", "get_commitments"}

\* The series ids.get_data(series=indicators) is asked for.
SeriesCodes(fn) ==
    CASE fn = "get_average_interest" -> DOMAIN INTEREST_RATE_INDICATORS
      [] fn = "get_commitments" -> DOMAIN COMMITMENTS_INDICATORS
      [] fn = "get_grace" -> {GRACE_PERIOD_INDICATOR}
      [] fn = "get_maturities" -> {MATURITY_INDICATOR}

\* Columns of the table ids.get_data returns; counterpart_code stands for the
\* columns that _clean_indicators' column filter drops.
IdsCols == {"entity_code", "entity_name", "counterpart_code", "counterpart_name",
            "indicator_code", "year", "value"}

\* Entities and counterparts of the model.  "World" is an aggregate without an
\* income level; "~" in a counterpart name stands for the non-breaking space.
IdsEntities == {"Kenya", "World"}
IdsCounterparts == {"World Bank", "Bondholders~"}
IdsValues == {V(0), V(3)}

\* The years of the observations; two of them where the caller of the model
\* goes on to sort by year.
IdsYears(fn) == IF fn = "get_average_interest" THEN {2000, 2001} ELSE {2000}

IdsRow(entity, name, code, year, value) ==
    [c \in IdsCols |->
        CASE c = "entity_code" -> V(IF entity = "Kenya" THEN "KEN" ELSE "WLD")
          [] c = "entity_name" -> V(entity)
          [] c = "counterpart_code" -> V("C")
          [] c = "counterpart_name" -> V(name)
          [] c = "indicator_code" -> V(code)
          [] c = "year" -> V(year)
          [] c = "value" -> value]

IdsRows(fn) ==
    {IdsRow(e, n, ic, y, v) :
        e \in IdsEntities, n \in IdsCounterparts, ic \in SeriesCodes(fn),
        y \in IdsYears(fn), v \in IdsValues}

\* Lines 13-16: r.replace("\xa0", "").
RemoveNbsp == [n \in IdsCounterparts |-> IF n = "Bondholders~" THEN "Bondholders" ELSE n]

\* Lines 18-20: convert_id(..., from_type="regex", to_type="name_short"), then
\* str(x); the counterparts of the model match no country and keep their name.
NameShort == [n \in {"World Bank", "Bondholders"} |-> n]

\* Line 46: bblocks add_income_level_column; no income level for an aggregate.
IncomeLevel == [e \in IdsEntities |-> IF e = "Kenya" THEN V("Lower middle income") ELSE NA]

\* Lines 26-28: convert_id(..., from_type="regex", to_type="continent"); a name
\* that matches no country is passed through.
Continent == [e \in IdsEntities |-> IF e = "Kenya" THEN "Africa" ELSE e]

\* df.filter(cols, axis=1): the listed columns the table has.
FilterColumns(t, cols) ==
    IF ~t.ok THEN Raised
    ELSE Table(t.cols \cap cols,
               [i \in 1..Len(t.rows) |-> [c \in t.cols \cap cols |-> t.rows[i][c]]])

\* Lines 10-21.
clean_counterpart_area(t) ==
    Assign(t, "counterpart_name",
           convert_id(convert_id(Series(t, "counterpart_name"), RemoveNbsp), NameShort))

\* Lines 24-29.
add_continent(t) == Assign(t, "continent", convert_id(Series(t, "entity_name"), Continent))

\* Line 46.
add_income_level_column(t) ==
    Assign(t, "income_level",
           [i \in 1..Len(t.rows) |-> IncomeLevel[Val(t.rows[i]["entity_name"])]])

\* Lines 32-71, filter_columns=True.  counterparts is NA (None) or V(list).
clean_indicators(t, counterparts) ==
    LET added == add_continent(add_income_level_column(clean_counterpart_area(t)))
        kept == SelectRows(added, NotNaSeries(Series(added, "income_level")))
        queried == IF IsNA(counterparts) THEN kept
                   ELSE SelectRows(kept,
                            [i \in 1..Len(kept.rows) |->
                                Val(kept.rows[i]["counterpart_name"]) \in Range(Val(counterparts))])
    IN  FilterColumns(queried, CleanCols)

\* Lines 74-112.  With a dict of indicators and a list of counterparts line 104
\* calls counterparts.items(), which a list does not have: AttributeError.
get_clean_data(fn, counterparts, ids_table) ==
    LET cleaned == clean_indicators(ids_table, counterparts)
    IN  IF IndicatorsIsDict(fn) /\ NotNA(counterparts) THEN Raised ELSE cleaned

CleanIdle ==
    /\ clean_fn = "none"
    /\ clean_counterparts = NA
    /\ ids_data = NoTable
    /\ clean_df = NoTable
    /\ interest_df = NoTable
    /\ clean_pc = "idle"

\* Line 94: ids.get_data(series=indicators) has answered a caller's request.
CleanInit ==
    /\ clean_fn \in CleanCallers
    /\ clean_counterparts \in {NA, V(<<"World Bank">>)}
    /\ ids_data \in {Table(IdsCols, rows) : rows \in SeqsUpTo(IdsRows(clean_fn), MaxIdsRows)}
    /\ clean_df = ids_data
    /\ interest_df = NoTable
    /\ clean_pc = "fetched"

\* Line 97.
CleanIndicators ==
    /\ clean_pc = "fetched"
    /\ clean_df' = clean_indicators(clean_df, clean_counterparts)
    /\ clean_pc' = IF clean_df'.ok THEN "cleaned" ELSE "raised"
    /\ UNCHANGED <<clean_fn, clean_counterparts, ids_data, interest_df>>
    /\ UNCHANGED not_clean_vars

\* Lines 100-112.
KeepRightIndicators ==
    /\ clean_pc = "cleaned"
    /\ clean_df' = get_clean_data(clean_fn, clean_counterparts, ids_data)
    /\ clean_pc' = IF clean_df'.ok THEN "returned" ELSE "raised"
    /\ UNCHANGED <<clean_fn, clean_counterparts, ids_data, interest_df>>
    /\ UNCHANGED not_clean_vars

\* country_level.py lines 16-47: _download_and_clean_interest_data goes on with
\* the table get_average_interest(countries=[country]) returned.
CleanInterestData ==
    /\ clean_pc = "returned"
    /\ clean_fn = "get_average_interest"
    /\ IsNA(clean_counterparts)
    /\ interest_df' = DownloadAndCleanInterestData(clean_df)
    /\ clean_pc' = IF interest_df'.ok THEN "downloaded" ELSE "raised"
    /\ UNCHANGED <<clean_fn, clean_counterparts, ids_data, clean_df>>
    /\ UNCHANGED not_clean_vars

CleanNext == CleanIndicators \/ KeepRightIndicators \/ CleanInterestData

-----------------------------------------------------------------------------
(* ========================== Specifications ============================= *)

InitFetch == FetchInit /\ BatchIdle /\ CrsIdle /\ TermsIdle /\ ProjIdle /\ WbIdle /\ CleanIdle
SpecFetch == InitFetch /\ [][FetchNext]_vars

InitBatch == BatchInit /\ FetchIdle /\ CrsIdle /\ TermsIdle /\ ProjIdle /\ WbIdle /\ CleanIdle
SpecBatch == InitBatch /\ [][BatchNext]_vars

InitCrs == CrsInit /\ FetchIdle /\ BatchIdle /\ TermsIdle /\ ProjIdle /\ WbIdle /\ CleanIdle
SpecCrs == InitCrs /\ [][CrsNext]_vars

InitTerms == TermsInit /\ FetchIdle /\ BatchIdle /\ CrsIdle /\ ProjIdle /\ WbIdle /\ CleanIdle
SpecTerms == InitTerms /\ [][TermsNext]_vars

InitProj == ProjInit /\ FetchIdle /\ BatchIdle /\ CrsIdle /\ TermsIdle /\ WbIdle /\ CleanIdle
SpecProj == InitProj /\ [][ProjNext]_vars

InitWb == WbInit /\ FetchIdle /\ BatchIdle /\ CrsIdle /\ TermsIdle /\ ProjIdle /\ CleanIdle
SpecWb == InitWb /\ [][WbNext]_vars

InitClean ==
    CleanInit /\ FetchIdle /\ BatchIdle /\ CrsIdle /\ TermsIdle /\ ProjIdle /\ WbIdle
SpecClean == InitClean /\ [][CleanNext]_vars

-----------------------------------------------------------------------------
(* ============================ Properties =============================== *)

\* The rows of the i-th answer, as the fetcher reads them.
PageRows(i) == IF responses[i].payload.has_data THEN responses[i].payload.data ELSE <<>>

\* The i-th answer was a success page with fewer rows than the page size.
ShortPage(i) == responses[i].status = 200 /\ Len(PageRows(i)) < max_records

(* C5: fetch_paginated_data issues its page requests one after another with
   offsets 0, p, 2p, ... and the same top = p in every request, stops at the
   first page that returns fewer than p rows, issues no request after it, and
   returns the concatenation of the rows of all received pages in request
   order, the last short page included. *)
C5_PaginationOrderAndStop ==
    /\ Len(requests_sent) - Len(responses) \in {0, 1}
    /\ (fetch_pc = "awaiting") = (Len(requests_sent) = Len(responses) + 1)
    /\ \A i \in 1..Len(requests_sent) :
          /\ requests_sent[i].skip = (i - 1) * max_records
          /\ requests_sent[i].top = max_records
    /\ \A i \in 1..Len(responses) :
          ShortPage(i) => /\ i = Len(requests_sent)
                          /\ fetch_pc = "returned"
    /\ fetch_pc = "returned" =>
          /\ Len(responses) >= 1
          /\ ShortPage(Len(responses))
          /\ \A i \in 1..Len(responses) : responses[i].status = 200
          /\ fetch_result.returned
          /\ fetch_result.rows = Flatten([i \in 1..Len(responses) |-> PageRows(i)])

\* Witness of C5: a fetch of three pages that ended on a short, non-empty page.
C5_Witness ==
    /\ fetch_pc = "returned"
    /\ Len(requests_sent) = 3
    /\ max_records = 2
    /\ Len(PageRows(3)) = 1
    /\ Len(fetch_result.rows) >= 5

(* C6: if any page request returns a non-success status, the fetch ends in an
   error: no table is returned (not even the pages already received), no
   further page is requested, and the failed offset is never requested a
   second time. *)
C6_FailedPageAborts ==
    \A i \in 1..Len(responses) :
        responses[i].status # 200 =>
            /\ fetch_pc = "raised"
            /\ fetch_result = NoResult
            /\ ~fetch_result.returned
            /\ i = Len(requests_sent)
            /\ Cardinality({j \in 1..Len(requests_sent) :
                              requests_sent[j].skip = requests_sent[i].skip}) = 1

\* Witness of C6: the third page fails after two pages of rows were received.
C6_Witness ==
    /\ fetch_pc = "raised"
    /\ Len(responses) = 3
    /\ responses[3].status = 500
    /\ Len(all_data) >= 2
    /\ fetch_result = NoResult

\* The call of _download_and_clean_interest_data that produced df.
LastDownload == downloads[Len(downloads)]

(* C7: when the upstream fetch for a country raises,
   _download_and_clean_interest_data does not propagate the error and returns
   a zero-row table whose columns are exactly {entity_name, counterpart_name,
   year, indicator_code, value}. *)
C7_FailedFetchGivesEmptyPlaceholder ==
    (batch_pc \in {"africa_write", "emde_write"} /\ LastDownload.failed) =>
        /\ df.ok
        /\ Len(df.rows) = 0
        /\ df.cols = {"entity_name", "counterpart_name", "year", "indicator_code", "value"}

\* Witness of C7: the second African country's fetch has just failed.
C7_Witness ==
    /\ batch_pc = "africa_write"
    /\ Len(downloads) = 2
    /\ LastDownload.failed
    /\ df.ok

\* The countries of both loops, in processing order.
AllCountries == african_countries \o emde_not_african

(* C8: in the per-country batch loops one country's fetch failure does not
   stop the others: for every list of countries and every subset of them whose
   fetch fails, the loop runs to the end, every country of the list is
   processed exactly once and exactly one output file is written for each
   country, failed ones included. *)
C8_BatchLoopsSurviveFailures ==
    /\ batch_pc # "raised"
    /\ batch_pc # "done" => ENABLED BatchNext
    /\ Len(downloads) <= Len(AllCountries)
    /\ Len(files) <= Len(downloads) /\ Len(downloads) <= Len(files) + 1
    /\ \A i \in 1..Len(files) : files[i].country = downloads[i].country
    /\ batch_pc = "done" =>
          /\ [i \in 1..Len(downloads) |-> downloads[i].country] = AllCountries
          /\ Len(files) = Len(AllCountries)
          /\ \A c \in Range(AllCountries) :
                /\ Cardinality({i \in 1..Len(downloads) : downloads[i].country = c}) = 1
                /\ Cardinality({i \in 1..Len(files) : files[i].country = c}) = 1
          /\ \A i \in 1..Len(files) :
                files[i].dir = IF i <= Len(african_countries)
                               THEN "africa" ELSE "emde_non_african"

\* Witness of C8: both loops ended; a failed country was followed by a
\* successful one in the same loop, and a country failed in the other loop.
C8_Witness ==
    /\ batch_pc = "done"
    /\ Len(african_countries) = 2
    /\ Len(emde_not_african) >= 1
    /\ downloads[1].failed
    /\ ~downloads[2].failed
    /\ downloads[3].failed
    /\ files[1].nrows = 0
    /\ files[2].nrows > 0
    /\ Len(files) = 3

\* The grouping key of a row handed to deduplicate_crs_data, and of a row it returns.
InputKey(r) ==
    <<r["project_id"], r["loan_or_credit_number"], r["recipient_code"], r["commitment_date"]>>
OutputKey(r) ==
    <<r["project_id"], r["loan_or_credit_number"], r["recipient_code"], r["board_approval_date"]>>

\* The input rows with key k.
GroupOf(k) == {j \in 1..Len(dedup_input.rows) : InputKey(dedup_input.rows[j]) = k}

\* The sum of column c over the input rows J, a missing value adding nothing.
RECURSIVE SumOver(_, _)
SumOver(J, c) ==
    IF J = {} THEN 0
    ELSE LET j == CHOOSE x \in J : TRUE
             cell == dedup_input.rows[j][c]
         IN  (IF cell = NA THEN 0 ELSE cell[1]) + SumOver(J \ {j}, c)

\* The non-missing interest1 and interest2 values of the input rows J.
PresentInterests(J) ==
    {dedup_input.rows[j][c][1] :
        <<j, c>> \in {x \in J \X {"interest1", "interest2"} : dedup_input.rows[x[1]][x[2]] # NA}}

(* C9: deduplicate_crs_data returns exactly one row per distinct (project_id,
   loan_or_credit_number, recipient_code, board_approval_date) of its input,
   missing key components forming their own group; in that row usd_commitment,
   usd_disbursement, usd_received and usd_interest are the sums over the
   group's rows, and interest_rate is the maximum of all non-missing interest1
   and interest2 values of the group divided by 1000 (missing only when every
   interest1 and interest2 of the group is missing). *)
C9_DeduplicateCrs ==
    crs_pc = "deduplicated" =>
        /\ crs_df.ok
        /\ \A r \in Range(dedup_input.rows) :
              Cardinality({i \in 1..Len(crs_df.rows) : OutputKey(crs_df.rows[i]) = InputKey(r)}) = 1
        /\ \A i \in 1..Len(crs_df.rows) :
              LET out == crs_df.rows[i]
                  J == GroupOf(OutputKey(out))
                  rates == PresentInterests(J)
              IN  /\ J # {}
                  /\ \A c \in {"usd_commitment", "usd_disbursement", "usd_received", "usd_interest"} :
                        out[c] = <<SumOver(J, c)>>
                  /\ (out["interest_rate"] = NA) = (rates = {})
                  /\ rates # {} =>
                        /\ out["interest_rate"][1].den > 0
                        /\ \E m \in rates :
                              /\ \A o \in rates : o <= m
                              /\ out["interest_rate"][1].num * 1000 = m * out["interest_rate"][1].den

\* Witness of C9: two CRS entries of one loan collapse into one row whose rate
\* comes from the second entry's interest1 while the first entry has none.
C9_Witness ==
    /\ crs_pc = "deduplicated"
    /\ Len(dedup_input.rows) = 2
    /\ Len(crs_df.rows) = 1
    /\ dedup_input.rows[1]["interest1"] = NA
    /\ dedup_input.rows[1]["interest2"] = V(2000)
    /\ dedup_input.rows[2]["interest1"] = V(3500)
    /\ dedup_input.rows[2]["interest2"] = NA
    /\ dedup_input.rows[1]["usd_commitment"] = NA
    /\ dedup_input.rows[2]["usd_commitment"] = V(5)
    /\ crs_df.rows[1]["interest_rate"] = V([num |-> 3500, den |-> 1000])
    /\ crs_df.rows[1]["usd_interest"] = V(8)

\* The five merge keys of a row, the same in every table of the merger.
IdxOf(r) ==
    <<r["year"], r["entity_name"], r["counterpart_name"], r["continent"], r["income_level"]>>

\* The values that table t holds at merge key k.
ValuesAt(t, k) == {r["value"] : r \in {q \in Range(t.rows) : IdxOf(q) = k}}

\* Column col of output row out is what table t says at the row's key: one of
\* its values there, or missing when t has no observation there.
CarriesSide(out, col, t) ==
    IF ValuesAt(t, IdxOf(out)) = {} THEN out[col] = NA
    ELSE out[col] \in ValuesAt(t, IdxOf(out))

\* The number of observations of table t at merge key k; a table that was not
\* fetched, or has none there, leaves the row single.
FanOut(t, k) ==
    LET n == Cardinality({j \in 1..Len(t.rows) : IdxOf(t.rows[j]) = k})
    IN  IF n = 0 THEN 1 ELSE n

\* The number of output rows that the first n commitment rows account for.
RECURSIVE ExpectedRows(_)
ExpectedRows(n) ==
    IF n = 0 THEN 0
    ELSE LET c == commitments.rows[n]
             k == IdxOf(c)
         IN  ExpectedRows(n - 1)
             + (IF c["value"] # NA /\ c["value"][1] > 0
                THEN FanOut(rate, k) * FanOut(payments, k) * FanOut(grace, k) * FanOut(maturities, k)
                ELSE 0)

(* C10: every row of the table returned by
   get_merged_rates_commitments_grace_maturities_data (and by
   get_merged_rates_commitments_payments_data) has a commitment value strictly
   greater than zero: rows whose commitment is zero, negative or missing are
   dropped, while rows with a positive commitment and no matching rate, grace
   or maturity observation are kept with those values missing. *)
C10_OnlyPositiveCommitments ==
    /\ terms_pc # "raised"
    /\ terms_pc = "returned" =>
          /\ \A i \in 1..Len(terms_df.rows) :
                LET out == terms_df.rows[i]
                IN  /\ out["value_commitments"] # NA
                    /\ out["value_commitments"][1] > 0
                    /\ out["value_commitments"] \in ValuesAt(commitments, IdxOf(out))
                    /\ CarriesSide(out, "value_rate", rate)
                    /\ terms_fn = "payments" => CarriesSide(out, "value_payments", payments)
                    /\ terms_fn = "grace_maturities" =>
                          /\ CarriesSide(out, "value_grace", grace)
                          /\ CarriesSide(out, "value_maturities", maturities)
          /\ \A j \in 1..Len(commitments.rows) :
                LET c == commitments.rows[j]
                IN  (c["value"] # NA /\ c["value"][1] > 0) =>
                        \E i \in 1..Len(terms_df.rows) :
                            /\ IdxOf(terms_df.rows[i]) = IdxOf(c)
                            /\ terms_df.rows[i]["value_commitments"] = c["value"]
          /\ Len(terms_df.rows) = ExpectedRows(Len(commitments.rows))

\* Witness of C10: of two commitments the zero one is dropped and the positive
\* one, which has a grace observation but no rate and no maturity, is kept.
C10_Witness ==
    /\ terms_pc = "returned"
    /\ terms_fn = "grace_maturities"
    /\ Len(commitments.rows) = 2
    /\ commitments.rows[1]["value"] = V(0)
    /\ commitments.rows[2]["value"] = V(5)
    /\ Len(rate.rows) = 2
    /\ \A j \in 1..2 : rate.rows[j]["year"] # commitments.rows[2]["year"]
    /\ maturities.rows = <<>>
    /\ Len(terms_df.rows) = 1
    /\ terms_df.rows[1]["value_commitments"] = V(5)
    /\ terms_df.rows[1]["value_rate"] = NA
    /\ terms_df.rows[1]["value_grace"] = V(7)
    /\ terms_df.rows[1]["value_maturities"] = NA

\* ---- project-level reconciler ----

\* get_project_level_interest has ended after both sources were loaded.
ProjEnded == proj_pc \in {"returned", "raised"} /\ crs_project_data.ok

\* The rate the World Bank reports for a record of get_project_level_data: the
\* service charge of an IDA credit, the interest rate of an IBRD loan.
WbReportedRate(r) ==
    IF r["source"] = V("IDA") THEN r["service_charge_rate"] ELSE r["interest_rate"]

\* The credit number of an IDA record, the loan number of an IBRD record.
WbLoanOrCreditNumber(r) ==
    IF r["source"] = V("IDA") THEN r["credit_number"] ELSE r["loan_number"]

\* Row o of a later table is the WB record r (interest_rate left aside).
SameWbRecord(o, r) ==
    \A c \in wb_projects.cols \ {"interest_rate"} : c \in DOMAIN o /\ o[c] = r[c]

\* WB record r is among the records handed to the CRS lookup.
SentToCrs(r) == \E m \in Range(missing_interest.rows) : SameWbRecord(m, r)

\* CRS record k is at the composite key of WB record r.
SameCompositeKey(r, k) ==
    /\ k["project_id"] = r["project_id"]
    /\ k["loan_or_credit_number"] = WbLoanOrCreditNumber(r)
    /\ k["iso3"] = r["iso3"]
    /\ k["board_approval_date"] = r["board_approval_date"]

\* The output holds WB record r with the rate x.
InOutputWithRate(r, x) ==
    \E o \in Range(combined_data.rows) : SameWbRecord(o, r) /\ o["interest_rate"] = x

\* No run of get_project_level_interest returns: on every input the CRS lookup
\* (line 110) raises KeyError, the WB table having no loan_or_credit_number
\* column, unless loading the CRS file has raised before.
GetProjectLevelInterestNeverReturns == proj_pc # "returned"

\* C3: WB rates take precedence.  Only the records whose WB-reported rate is
\* missing are handed to the CRS lookup, and once the function has ended every
\* WB record (IDA or IBRD) whose WB-reported rate is present is in the output
\* with that rate.
C3_WbRateTakesPrecedence ==
    /\ proj_pc = "filtered" =>
          \A r \in Range(wb_projects.rows) : SentToCrs(r) => IsNA(WbReportedRate(r))
    /\ ProjEnded =>
          \A r \in Range(wb_projects.rows) :
              NotNA(WbReportedRate(r)) => InOutputWithRate(r, WbReportedRate(r))

\* C4: once the function has ended, a WB record whose WB-reported rate is
\* missing and for which CRS holds a record with rate x at the same composite
\* key (project id, loan or credit number, ISO3, approval date) is in the
\* output with the rate x.
C4_MissingRateBackfilledFromCrs ==
    ProjEnded =>
        \A r \in Range(wb_projects.rows) : \A k \in Range(crs_project_data.rows) :
            (IsNA(WbReportedRate(r)) /\ SameCompositeKey(r, k) /\ NotNA(k["interest_rate"]))
                => InOutputWithRate(r, k["interest_rate"])

\* ---- WB statement summaries ----

\* The column holding the credit number (IDA) or the loan number (IBRD).
WbNumberCol == IF wb_fn = "get_ida_interest" THEN "credit_number" ELSE "loan_number"

\* The key a WB project record is identified by.
WbRecordKeyCols == {WbNumberCol, "country_code", "project_id"}

\* The groupby key of the function, in group order.
WbIdxOrder == IF wb_fn = "get_ida_interest" THEN IdaIdxCols ELSE IbrdIdxCols

\* Rows a and b agree on the columns cols.
SameOn(cols, a, b) == \A c \in cols : a[c] = b[c]

\* C11: the table returned by get_ida_interest / get_ibrd_interest has at most
\* one record per (loan/credit number, country code, project id); every such
\* key of the statement file keeps exactly one record, which is one of the
\* file's groups and the last of that key in group order (no statement row of
\* the key sorts after it).
C11_OneRecordPerKey ==
    wb_pc = "returned" =>
        /\ \A i, j \in 1..Len(summary.rows) :
              SameOn(WbRecordKeyCols, summary.rows[i], summary.rows[j]) => i = j
        /\ \A r \in Range(statements.rows) :
              \E k \in Range(summary.rows) :
                  /\ SameOn(WbRecordKeyCols, k, r)
                  /\ ~KeyBeforeFrom(WbIdxOrder, WbNumericCols, k, r, 1)
                  /\ \E g \in Range(statements.rows) : SameOn(Range(WbIdxOrder), k, g)

\* Two statement rows of one key that differ in approval date (and in project
\* name or loan type) have collapsed to a single record.
C11_Witness ==
    /\ wb_pc = "returned"
    /\ Len(statements.rows) = 2
    /\ SameOn(WbRecordKeyCols, statements.rows[1], statements.rows[2])
    /\ statements.rows[1]["board_approval_date"] # statements.rows[2]["board_approval_date"]
    /\ ~SameOn(Range(WbIdxOrder) \ {"board_approval_date"},
               statements.rows[1], statements.rows[2])
    /\ Len(summary.rows) = 1

\* ---- indicator cleaning ----

\* The fetched observation r passes the filters of _clean_indicators: its entity
\* has an income level and its counterpart is among the requested ones.
PassesCleaning(r) ==
    /\ NotNA(IncomeLevel[Val(r["entity_name"])])
    /\ \/ IsNA(clean_counterparts)
       \/ NameShort[RemoveNbsp[Val(r["counterpart_name"])]] \in Range(Val(clean_counterparts))

\* The values of the fetched observations that pass the filters, in order.
ValuesPassingCleaning ==
    LET passing == SelectSeq(ids_data.rows, PassesCleaning)
    IN  [i \in 1..Len(passing) |-> passing[i]["value"]]

\* C12 as stated: no table returned by get_clean_data holds an observation
\* whose value is 0.
C12_NoZeroAfterGetCleanData ==
    clean_pc = "returned" => \A r \in Range(clean_df.rows) : r["value"] # V(0)

\* C12 amended: get_clean_data returns the values of the observations that pass
\* its entity and counterpart filters unchanged, zeros included; the zero
\* observations are dropped by _download_and_clean_interest_data, whose table
\* holds no observation of value 0.
C12_ZeroDroppedOnlyByInterestDownload ==
    /\ clean_pc \in {"returned", "downloaded"} =>
          Series(clean_df, "value") = ValuesPassingCleaning
    /\ clean_pc = "downloaded" => \A r \in Range(interest_df.rows) : r["value"] # V(0)

\* get_average_interest returned an observation of value 0 and one of another
\* value; _download_and_clean_interest_data returned only the latter.
C12_Witness ==
    /\ clean_pc = "downloaded"
    /\ Len(clean_df.rows) = 2
    /\ \E r \in Range(clean_df.rows) : r["value"] = V(0)
    /\ Len(interest_df.rows) = 1

\* The row _download_and_clean_interest_data is to return for the fetched
\* observation r: its counterpart suffixed by its indicator code, on the
\* columns of the returned table.
SuffixedObservation(r) ==
    [c \in interest_df.cols |->
        IF c = "counterpart_name"
        THEN V(Val(r[c]) \o (IF r["indicator_code"] = V("DT.INR.PRVT")
                             THEN " (private)" ELSE " (official)"))
        ELSE r[c]]

\* How many rows of the sequence rows equal x.
Occurrences(rows, x) == Cardinality({i \in 1..Len(rows) : rows[i] = x})

\* The fetched observations whose value is not 0, suffixed.
ExpectedInterestRows ==
    LET nonzero == SelectSeq(clean_df.rows, LAMBDA r : r["value"] # V(0))
    IN  [i \in 1..Len(nonzero) |-> SuffixedObservation(nonzero[i])]

\* C13: after a successful fetch the table returned by
\* _download_and_clean_interest_data holds exactly the fetched observations of
\* value other than 0, each once per fetched row, with counterpart_name
\* suffixed " (private)" for DT.INR.PRVT and " (official)" otherwise, in
\* ascending order of the suffixed counterpart_name and, within a counterpart,
\* in descending order of year.
C13_LabelledNonZeroSorted ==
    clean_pc = "downloaded" =>
        /\ Len(interest_df.rows) = Len(ExpectedInterestRows)
        /\ \A x \in Range(ExpectedInterestRows) \cup Range(interest_df.rows) :
              Occurrences(interest_df.rows, x) = Occurrences(ExpectedInterestRows, x)
        /\ \A i, j \in 1..Len(interest_df.rows) :
              i < j =>
                LET a == interest_df.rows[i]
                    b == interest_df.rows[j]
                IN  \/ NameRank(Val(a["counterpart_name"])) < NameRank(Val(b["counterpart_name"]))
                    \/ /\ a["counterpart_name"] = b["counterpart_name"]
                       /\ Val(a["year"]) >= Val(b["year"])

\* Two observations of one private counterpart were fetched in ascending order
\* of year and are returned suffixed, the later year first.
C13_Witness ==
    /\ clean_pc = "downloaded"
    /\ Len(clean_df.rows) = 2
    /\ Len(interest_df.rows) = 2
    /\ clean_df.rows[1]["indicator_code"] = V("DT.INR.PRVT")
    /\ clean_df.rows[1]["year"] = V(2000)
    /\ clean_df.rows[2]["year"] = V(2001)
    /\ interest_df.rows[1]["counterpart_name"] = V("Bondholders (private)")
    /\ interest_df.rows[2]["counterpart_name"] = V("Bondholders (private)")
    /\ interest_df.rows[1]["year"] = V(2001)

\* C14: the placeholder returned on a fetch failure has the column set of the
\* table returned on a successful fetch: the file written for a country whose
\* fetch failed and the file written for a country whose fetch succeeded have
\* the same header.
C14_PlaceholderHasSuccessSchema ==
    \A i, j \in 1..Len(files) :
        (downloads[i].failed /\ ~downloads[j].failed) => files[i].header = files[j].header

\* ---- fetch_paginated_data against a server that holds n rows ----

\* The sizes of the datasets the servers of the model may hold.
DatasetSizes == 0..(MaxTop * MaxPages)

\* How many of the n rows of the dataset lie in [s, s + top).
RowsInRange(n, s, top) ==
    IF s >= n THEN 0 ELSE IF s + top <= n THEN top ELSE n - s

\* Every answer so far is the one of a server that holds n rows: a success with
\* the rows [skip, min(skip + top, n)) of the request it answers.
HonestServer(n) ==
    \A i \in 1..Len(responses) :
        /\ responses[i].status = 200
        /\ Len(PageRows(i)) = RowsInRange(n, requests_sent[i].skip, requests_sent[i].top)

\* The pages requested so far that contain row k of the dataset (rows are
\* numbered from 0).
PagesHolding(k) ==
    {i \in 1..Len(responses) :
        requests_sent[i].skip <= k /\ k < requests_sent[i].skip + Len(PageRows(i))}

\* C15: against a server that holds n rows and answers every request (skip,
\* top) with a success and the rows [skip, min(skip + top, n)), the fetch never
\* raises, sends at most n \div p + 1 requests, has returned once that many
\* were answered, and returns the n rows, each from exactly one page, in the
\* order of the dataset.
C15_HonestServerExactRequests ==
    \A n \in DatasetSizes :
        HonestServer(n) =>
            /\ fetch_pc # "raised"
            /\ Len(requests_sent) <= (n \div max_records) + 1
            /\ Len(responses) = (n \div max_records) + 1 => fetch_pc = "returned"
            /\ fetch_pc = "returned" =>
                  /\ Len(requests_sent) = (n \div max_records) + 1
                  /\ Len(fetch_result.rows) = n
                  /\ fetch_result.rows = Flatten([i \in 1..Len(responses) |-> PageRows(i)])
                  /\ \A k \in 0..(n - 1) : Cardinality(PagesHolding(k)) = 1

\* A server holding two rows was read with page size 1: two full pages and the
\* extra empty one, the size being a multiple of the page size.
C15_Witness ==
    /\ fetch_pc = "returned"
    /\ max_records = 1
    /\ HonestServer(2)
    /\ Len(requests_sent) = 3
    /\ Len(fetch_result.rows) = 2
    /\ PageRows(3) = <<>>

=============================================================================
